---------------------------- MODULE Spec2Model ----------------------------
(***************************************************************************)
(* A model of pe_check.py: one run of the script, statement by statement.  *)
(*                                                                         *)
(* The script asks the pefile library for a parsed image of a fixed path   *)
(* and prints a report of it; one try/except Exception encloses the load   *)
(* and every print.  The library is a collaborator: what pefile.PE()       *)
(* returns (or raises) is the input of the run, drawn from bounded sets.   *)
(*                                                                         *)
(* Standard output is the sequence `out' of printed lines.  A line is one  *)
(* call of print(): the literal pieces of its f-string (lit) and the       *)
(* formatted fields between them (name, label, va, num).  Numbers are      *)
(* printed as digit sequences; 32-bit fields are kept as two 16-bit limbs  *)
(* <<hi, lo>> because the whole range 0 .. 2^32-1 has to be representable. *)
(***************************************************************************)
EXTENDS Integers, Sequences, FiniteSets

VARIABLES
    pc,      \* the statement the run is at
    pe,      \* the handle bound by line 7 in a 0/1-long sequence: << >> while unbound
    i,       \* position of the running for-loop (0-based index of the next element)
    out,     \* standard output: the lines printed so far
    exc,     \* the exception raised in this run, in a 0/1-long sequence
    status,  \* "running", then the process's exit status
    loads    \* how many times pefile.PE(pe_path) has been called

vars == <<pc, pe, i, out, exc, status, loads>>

-----------------------------------------------------------------------------
(* Bounds of the model *)

\* longest section table of the images of Spec
MaxSections == 2

\* longest run of arbitrary bytes in a generated section name (SpecNames)
MaxBody == 4

-----------------------------------------------------------------------------
(* Numbers: 32-bit unsigned fields as two 16-bit limbs *)

Limb == 2^16

DW(hi, lo) == <<hi, lo>>

\* quotient and remainder of a two-limb number by a small base (schoolbook division)
DivMod(d, base) ==
    LET t == (d[1] % base) * Limb + d[2]
    IN  [q |-> <<d[1] \div base, t \div base>>, r |-> t % base]

DWords == (0..(Limb - 1)) \X (0..(Limb - 1))

\* the digits of d in the given base, most significant first, no padding; 0 is <<0>>
Digits(d, base) ==
    LET digits[x \in DWords] ==
            LET qr == DivMod(x, base)
            IN  IF qr.q = <<0, 0>> THEN <<qr.r>>
                ELSE Append(digits[qr.q], qr.r)
    IN  digits[d]

UpperHex == <<"0","1","2","3","4","5","6","7","8","9","A","B","C","D","E","F">>
LowerHex == <<"0","1","2","3","4","5","6","7","8","9","a","b","c","d","e","f">>
Decimal  == <<"0","1","2","3","4","5","6","7","8","9">>

ToChars(ds, alphabet) == [k \in 1..Len(ds) |-> alphabet[ds[k] + 1]]

FormatLowerX(d) == ToChars(Digits(d, 16), LowerHex)

\* format(v, "X"): uppercase hexadecimal, no prefix, no padding
FormatX(d) == ToChars(Digits(d, 16), UpperHex)

\* format(v, ""): decimal
FormatD(d) == ToChars(Digits(d, 10), Decimal)

-----------------------------------------------------------------------------
(* Text: bytes.decode() and str.rstrip() *)

IsCont(b) == b >= 128 /\ b <= 191

\* the length of the UTF-8 sequence that starts at b[k], 0 when it is ill-formed
\* (strict decoding: no overlong form, no surrogate, nothing above U+10FFFF)
SeqLen(b, k) ==
    LET c == b[k]
        n == Len(b)
        c1 == IF k + 1 <= n THEN b[k + 1] ELSE -1
        c2 == IF k + 2 <= n THEN b[k + 2] ELSE -1
        c3 == IF k + 3 <= n THEN b[k + 3] ELSE -1
    IN  IF c < 128 THEN 1
        ELSE IF c >= 194 /\ c <= 223
            THEN IF IsCont(c1) THEN 2 ELSE 0
        ELSE IF c >= 224 /\ c <= 239
            THEN IF /\ IsCont(c1) /\ IsCont(c2)
                    /\ (c = 224 => c1 >= 160)
                    /\ (c = 237 => c1 <= 159)
                 THEN 3 ELSE 0
        ELSE IF c >= 240 /\ c <= 244
            THEN IF /\ IsCont(c1) /\ IsCont(c2) /\ IsCont(c3)
                    /\ (c = 240 => c1 >= 144)
                    /\ (c = 244 => c1 <= 143)
                 THEN 4 ELSE 0
        ELSE 0

\* the code point of the well-formed sequence of length n at b[k]
CodePoint(b, k, n) ==
    CASE n = 1 -> b[k]
      [] n = 2 -> (b[k] - 192) * 64 + (b[k + 1] - 128)
      [] n = 3 -> (b[k] - 224) * 4096 + (b[k + 1] - 128) * 64 + (b[k + 2] - 128)
      [] n = 4 -> (b[k] - 240) * 262144 + (b[k + 1] - 128) * 4096
                  + (b[k + 2] - 128) * 64 + (b[k + 3] - 128)

\* whether b is well-formed UTF-8: bytes.decode() raises UnicodeDecodeError if not
CanDecode(b) ==
    LET ok[k \in 1..(Len(b) + 1)] ==
            IF k > Len(b) THEN TRUE
            ELSE LET n == SeqLen(b, k)
                 IN  n > 0 /\ ok[k + n]
    IN  ok[1]

\* bytes.decode(): UTF-8, errors="strict"; the characters (code points) of b,
\* read up to the first ill-formed sequence
Decode(b) ==
    LET chars[k \in 1..(Len(b) + 1)] ==
            IF k > Len(b) THEN << >>
            ELSE LET n == SeqLen(b, k)
                 IN  IF n = 0 THEN << >>
                     ELSE <<CodePoint(b, k, n)>> \o chars[k + n]
    IN  chars[1]

CutAtFirst(s, chars) ==
    LET hits == {k \in 1..Len(s) : s[k] \in chars}
    IN  IF hits = {} THEN s
        ELSE SubSeq(s, 1, (CHOOSE k \in hits : \A h \in hits : k <= h) - 1)

\* str.rstrip(chars): drop characters of `chars' from the end while there are any
RStrip(s, chars) ==
    LET keep[n \in 0..Len(s)] ==
            IF n = 0 THEN 0
            ELSE IF s[n] \in chars THEN keep[n - 1]
            ELSE n
    IN  SubSeq(s, 1, keep[Len(s)])

NUL == {0}


-----------------------------------------------------------------------------
(* What the library hands to the script *)

pe_path == "out_srm_print.dll"

\* pefile.DIRECTORY_ENTRY, read by index: the well-known name of each slot
DirNames ==
    << "IMAGE_DIRECTORY_ENTRY_EXPORT",       "IMAGE_DIRECTORY_ENTRY_IMPORT",
       "IMAGE_DIRECTORY_ENTRY_RESOURCE",     "IMAGE_DIRECTORY_ENTRY_EXCEPTION",
       "IMAGE_DIRECTORY_ENTRY_SECURITY",     "IMAGE_DIRECTORY_ENTRY_BASERELOC",
       "IMAGE_DIRECTORY_ENTRY_DEBUG",        "IMAGE_DIRECTORY_ENTRY_COPYRIGHT",
       "IMAGE_DIRECTORY_ENTRY_GLOBALPTR",    "IMAGE_DIRECTORY_ENTRY_TLS",
       "IMAGE_DIRECTORY_ENTRY_LOAD_CONFIG",  "IMAGE_DIRECTORY_ENTRY_BOUND_IMPORT",
       "IMAGE_DIRECTORY_ENTRY_IAT",          "IMAGE_DIRECTORY_ENTRY_DELAY_IMPORT",
       "IMAGE_DIRECTORY_ENTRY_COM_DESCRIPTOR", "IMAGE_DIRECTORY_ENTRY_RESERVED" >>

DIRECTORY_ENTRY == [k \in 0..(Len(DirNames) - 1) |-> DirNames[k + 1]]

NumDirs == Len(DirNames)

\* a section header as the script reads it: Name is the raw 8-byte field
Section(name, va, size) ==
    [Name |-> name, VirtualAddress |-> va, SizeOfRawData |-> size]

DataDir(va, size) == [VirtualAddress |-> va, Size |-> size]

Image(entry, sections, dirs, com) ==
    [AddressOfEntryPoint |-> entry, sections |-> sections,
     DATA_DIRECTORY |-> dirs, DIRECTORY_ENTRY_COM_DESCRIPTOR |-> com]

\* the outcome of pefile.PE(pe_path): a handle, or an exception
Loaded(image) == [raises |-> FALSE, cls |-> "", msg |-> "", image |-> <<image>>]
Raised(cls, msg) == [raises |-> TRUE, cls |-> cls, msg |-> msg, image |-> << >>]

\* the ways the load fails: no such file, an I/O error, an empty, truncated or malformed file
LoadFailures ==
    { Raised("FileNotFoundError",
             "[Errno 2] No such file or directory: 'out_srm_print.dll'"),
      Raised("PermissionError",
             "[Errno 13] Permission denied: 'out_srm_print.dll'"),
      Raised("PEFormatError", "'The file is empty'"),
      Raised("PEFormatError", "'DOS Header magic not found.'"),
      Raised("PEFormatError", "'Invalid NT Headers signature. Probably a NE file'") }

\* section headers of the images of Spec: a plain name, a name with a NUL inside,
\* a name of NULs only at a high address, and a name that is not UTF-8
SectionPool ==
    { Section(<<46, 116, 101, 120, 116, 0, 0, 0>>, DW(0, 8192), DW(0, 512)),
      Section(<<65, 0, 66, 0, 0, 0, 0, 0>>,        DW(0, 16384), DW(1, 0)),
      Section(<<0, 0, 0, 0, 0, 0, 0, 0>>,          DW(32768, 43981), DW(0, 0)),
      Section(<<85, 80, 88, 255, 0, 0, 0, 0>>,     DW(0, 24576), DW(0, 1024)) }

RECURSIVE SeqsUpTo(_, _)
SeqsUpTo(S, n) ==
    IF n = 0 THEN {<< >>}
    ELSE LET shorter == SeqsUpTo(S, n - 1)
         IN  shorter \cup {Append(s, x) : s \in {t \in shorter : Len(t) = n - 1}, x \in S}

\* full data-directory tables: a native image and a managed (.NET) one
NoDir == DataDir(DW(0, 0), DW(0, 0))

NativeTable ==
    [k \in 1..NumDirs |->
        CASE k = 2  -> DataDir(DW(0, 12288), DW(0, 40))
          [] k = 6  -> DataDir(DW(0, 20480), DW(0, 12))
          [] k = 13 -> DataDir(DW(0, 8192), DW(0, 8))
          [] OTHER  -> NoDir]

ManagedTable ==
    [k \in 1..NumDirs |->
        CASE k = 2  -> DataDir(DW(0, 12288), DW(0, 40))
          [] k = 6  -> DataDir(DW(0, 20480), DW(0, 12))
          [] k = 15 -> DataDir(DW(0, 8200), DW(0, 72))
          [] OTHER  -> NoDir]

\* the table as the library returns it: the first n slots, n = NumberOfRvaAndSizes
\* capped at the number of well-known names
DirTables == {SubSeq(t, 1, n) : t \in {NativeTable, ManagedTable}, n \in 0..NumDirs}

EntryPoints == {DW(0, 0), DW(0, 4846)}

Images ==
    { Image(e, s, d, c) : e \in EntryPoints, s \in SeqsUpTo(SectionPool, MaxSections),
                          d \in DirTables, c \in BOOLEAN }

LoadOutcomes == LoadFailures \cup {Loaded(im) : im \in Images}

-----------------------------------------------------------------------------
(* Lines of output *)

Line(lit, name, label, va, num) ==
    [lit |-> lit, name |-> name, label |-> label, va |-> va, num |-> num]

FileLit    == <<"[PE] File: ">>
EntryLit   == <<"  Entry point: 0x">>
SecHdrLit  == <<"  Sections:">>
SectionLit == <<"    ", "  VA: 0x", "  Size: ">>
CountLit   == <<"  Number of sections: ">>
DirHdrLit  == <<"  Data directories:">>
DirLit     == <<"    ", ": VA=0x", " Size=">>
FoundLit   == <<"  [OK] .NET COM Descriptor found!">>
MissingLit == <<"  [WARN] .NET COM Descriptor not found!">>
ErrLit     == <<"[ERR] Could not parse PE file: ">>

\* line 8
FileLine == Line(FileLit, << >>, pe_path, << >>, << >>)

\* line 9
EntryLine(p) == Line(EntryLit, << >>, "", FormatX(p.AddressOfEntryPoint), << >>)

\* line 10
SectionsHeader == Line(SecHdrLit, << >>, "", << >>, << >>)

\* line 12, once the name has decoded
SectionLine(s) ==
    Line(SectionLit, RStrip(Decode(s.Name), NUL), "",
         FormatX(s.VirtualAddress), FormatD(s.SizeOfRawData))

CountLineDistinct(p) ==
    Line(CountLit, << >>, "", << >>,
         FormatD(DW(0, Cardinality({p.sections[k] : k \in 1..Len(p.sections)}))))

\* line 13
CountLine(p) == Line(CountLit, << >>, "", << >>, FormatD(DW(0, Len(p.sections))))

\* line 14
DirsHeader == Line(DirHdrLit, << >>, "", << >>, << >>)

DirLineOneBased(k, dd) ==
    Line(DirLit, << >>, DIRECTORY_ENTRY[(k + 1) % NumDirs], FormatX(dd.VirtualAddress), FormatD(dd.Size))

\* line 16
DirLine(k, dd) ==
    Line(DirLit, << >>, DIRECTORY_ENTRY[k], FormatX(dd.VirtualAddress), FormatD(dd.Size))

\* hasattr(pe, 'DIRECTORY_ENTRY_COM_DESCRIPTOR')
HasComDescriptor(p) == p.DIRECTORY_ENTRY_COM_DESCRIPTOR

NetLineSwapped(p) ==
    IF HasComDescriptor(p) THEN Line(MissingLit, << >>, "", << >>, << >>)
    ELSE Line(FoundLit, << >>, "", << >>, << >>)

\* lines 18-21
NetLine(p) ==
    IF HasComDescriptor(p) THEN Line(FoundLit, << >>, "", << >>, << >>)
    ELSE Line(MissingLit, << >>, "", << >>, << >>)

ErrLineClassName(e) == Line(ErrLit, << >>, e.cls, << >>, << >>)

\* line 23: the marker, then str(e)
ErrLine(e) == Line(ErrLit, << >>, e.msg, << >>, << >>)

\* the classes `except Exception' catches, among those a run can raise
ExceptionClasses ==
    {"FileNotFoundError", "PermissionError", "PEFormatError", "UnicodeDecodeError", "KeyError"}

CatchesFormatErrorOnly(cls) == cls = "PEFormatError"

Catches(cls) == cls \in ExceptionClasses

-----------------------------------------------------------------------------
(* The run *)

Init ==
    /\ pc = "load"
    /\ pe = << >>
    /\ i = 0
    /\ out = << >>
    /\ exc = << >>
    /\ status = "running"
    /\ loads = 0

Raise(cls, msg) ==
    /\ exc' = <<[cls |-> cls, msg |-> msg]>>
    /\ pc' = "except"

Emit(line) == out' = Append(out, line)

\* line 7: pe = pefile.PE(pe_path)
Load(outcomes) ==
    /\ pc = "load"
    /\ \E r \in outcomes :
          /\ loads' = loads + 1
          /\ IF r.raises
             THEN Raise(r.cls, r.msg) /\ UNCHANGED pe
             ELSE pe' = r.image /\ pc' = "file" /\ UNCHANGED exc
    /\ UNCHANGED <<i, out, status>>

\* line 8
PrintFile ==
    /\ pc = "file"
    /\ Emit(FileLine)
    /\ pc' = "entry"
    /\ UNCHANGED <<pe, i, exc, status, loads>>

\* line 9
PrintEntry ==
    /\ pc = "entry"
    /\ Emit(EntryLine(pe[1]))
    /\ pc' = "sechdr"
    /\ UNCHANGED <<pe, i, exc, status, loads>>

PrintSectionsHeaderAndCount ==
    /\ pc = "sechdr"
    /\ out' = out \o <<SectionsHeader, CountLine(pe[1])>>
    /\ pc' = "sections"
    /\ i' = 0
    /\ UNCHANGED <<pe, exc, status, loads>>

\* line 10, and the for of line 11 takes its iterator
PrintSectionsHeader ==
    /\ pc = "sechdr"
    /\ Emit(SectionsHeader)
    /\ pc' = "sections"
    /\ i' = 0
    /\ UNCHANGED <<pe, exc, status, loads>>

\* lines 11-12, one pass of the loop whose name decodes
PrintSection ==
    /\ pc = "sections"
    /\ i < Len(pe[1].sections)
    /\ CanDecode(pe[1].sections[i + 1].Name)
    /\ Emit(SectionLine(pe[1].sections[i + 1]))
    /\ i' = i + 1
    /\ UNCHANGED <<pc, pe, exc, status, loads>>

\* lines 11-12, a pass whose section.Name.decode() raises: nothing is printed
SectionDecodeError ==
    /\ pc = "sections"
    /\ i < Len(pe[1].sections)
    /\ ~CanDecode(pe[1].sections[i + 1].Name)
    /\ Raise("UnicodeDecodeError", "'utf-8' codec can't decode byte")
    /\ UNCHANGED <<pe, i, out, status, loads>>

\* the loop of line 11 is exhausted; line 13
PrintCount ==
    /\ pc = "sections"
    /\ i = Len(pe[1].sections)
    /\ Emit(CountLine(pe[1]))
    /\ pc' = "dirhdr"
    /\ UNCHANGED <<pe, i, exc, status, loads>>

\* line 14, and the for of line 15 takes its iterator
PrintDirsHeader ==
    /\ pc = "dirhdr"
    /\ Emit(DirsHeader)
    /\ pc' = "dirs"
    /\ i' = 0
    /\ UNCHANGED <<pe, exc, status, loads>>

\* lines 15-16, one pass of the loop.  pefile.DIRECTORY_ENTRY[i] raises KeyError
\* for an index without a name; the library never returns more slots than names
PrintDir ==
    /\ pc = "dirs"
    /\ i < Len(pe[1].DATA_DIRECTORY)
    /\ IF i \in DOMAIN DIRECTORY_ENTRY
       THEN /\ Emit(DirLine(i, pe[1].DATA_DIRECTORY[i + 1]))
            /\ i' = i + 1
            /\ UNCHANGED <<pc, exc>>
       ELSE /\ Raise("KeyError", "no such directory index")
            /\ UNCHANGED <<i, out>>
    /\ UNCHANGED <<pe, status, loads>>

\* the loop of line 15 is exhausted; lines 18-21
PrintNet ==
    /\ pc = "dirs"
    /\ i = Len(pe[1].DATA_DIRECTORY)
    /\ Emit(NetLine(pe[1]))
    /\ pc' = "end"
    /\ UNCHANGED <<pe, i, exc, status, loads>>

ExceptInsideLoop ==
    /\ pc = "except"
    /\ Emit(ErrLine(exc[1]))
    /\ IF pe = << >>
       THEN pc' = "end" /\ UNCHANGED i
       ELSE pc' = "sections" /\ i' = i + 1
    /\ UNCHANGED <<pe, exc, status, loads>>

\* lines 22-23: the handler of the try.  An exception the clause does not match
\* leaves the script: traceback on stderr, exit status 1
Except ==
    /\ pc = "except"
    /\ IF Catches(exc[1].cls)
       THEN /\ Emit(ErrLine(exc[1]))
            /\ pc' = "end"
            /\ UNCHANGED status
       ELSE /\ pc' = "done"
            /\ status' = "exit1"
            /\ UNCHANGED out
    /\ UNCHANGED <<pe, i, exc, loads>>

\* the script runs off its last statement: exit status 0
Exit ==
    /\ pc = "end"
    /\ pc' = "done"
    /\ status' = "exit0"
    /\ UNCHANGED <<pe, i, out, exc, loads>>

Report ==
    \/ PrintFile
    \/ PrintEntry
    \/ PrintSectionsHeader
    \/ PrintSection
    \/ SectionDecodeError
    \/ PrintCount
    \/ PrintDirsHeader
    \/ PrintDir
    \/ PrintNet

Next == Load(LoadOutcomes) \/ Report \/ Except \/ Exit

Spec == Init /\ [][Next]_vars

\* a started run is never suspended: single-threaded, run to completion
FairSpec == Spec /\ WF_vars(Next)

-----------------------------------------------------------------------------
(* The same run over images that vary one field widely *)

\* the width of a section header's Name field
NameWidth == 8

NameBytes == {0, 65, 195, 169}

Pad(b, w) == b \o [k \in 1..(w - Len(b)) |-> 0]

\* short names NUL-padded to the field's width (NULs inside and lone UTF-8 lead or
\* continuation bytes included), and one name that fills the field
SectionNames ==
    {Pad(b, NameWidth) : b \in SeqsUpTo(NameBytes, MaxBody)}
        \cup {<<46, 116, 101, 120, 116, 98, 115, 115>>}

NameImages ==
    { Image(DW(0, 4846), <<Section(n, DW(0, 8192), DW(0, 512))>>,
            SubSeq(ManagedTable, 1, 2), c) : n \in SectionNames, c \in BOOLEAN }

NextNames ==
    Load(LoadFailures \cup {Loaded(im) : im \in NameImages}) \/ Report \/ Except \/ Exit

SpecNames == Init /\ [][NextNames]_vars

Words == {0, 1, 9, 10, 15, 16, 255, 256, 4095, 4096, 32768, 43981, 65535}

EntryImages ==
    { Image(DW(hi, lo), <<Section(<<46, 116, 101, 120, 116, 0, 0, 0>>, DW(0, 8192), DW(0, 512))>>,
            SubSeq(NativeTable, 1, 2), FALSE) : hi \in Words, lo \in Words }

\* an image without sections, and one whose only section name is not UTF-8
EdgeImages ==
    { Image(DW(0, 0), s, SubSeq(NativeTable, 1, 2), TRUE) :
        s \in {<< >>, <<Section(<<85, 80, 88, 255, 0, 0, 0, 0>>, DW(0, 24576), DW(0, 1024))>>} }

NextEntry ==
    Load(LoadFailures \cup {Loaded(im) : im \in EntryImages \cup EdgeImages})
        \/ Report \/ Except \/ Exit

SpecEntry == Init /\ [][NextEntry]_vars

-----------------------------------------------------------------------------
(* Reading the output *)

Lines(lit) == SelectSeq(out, LAMBDA l : l.lit = lit)

Last(s) == s[Len(s)]

\* the report without the error line, if there is one
Body == SelectSeq(out, LAMBDA l : l.lit # ErrLit)

\* a run that has come to its end / whose try block raised / whose load raised
Done == pc = "done"
Succeeded == Done /\ exc = << >>
LoadFailed == pe = << >> /\ exc # << >>
ReportFailed == pe # << >> /\ exc # << >>

\* the place of a line's group in the report
Rank(l) ==
    CASE l.lit = FileLit    -> 1
      [] l.lit = EntryLit   -> 2
      [] l.lit = SecHdrLit  -> 3
      [] l.lit = SectionLit -> 4
      [] l.lit = CountLit   -> 5
      [] l.lit = DirHdrLit  -> 6
      [] l.lit = DirLit     -> 7
      [] l.lit \in {FoundLit, MissingLit} -> 8
      [] l.lit = ErrLit     -> 9

DigitOf(c, alphabet) == CHOOSE d \in 0..(Len(alphabet) - 1) : alphabet[d + 1] = c

IsNumeral(chars, alphabet) ==
    /\ Len(chars) >= 1
    /\ \A k \in 1..Len(chars) : \E d \in 1..Len(alphabet) : alphabet[d] = chars[k]
    /\ (Len(chars) > 1 => chars[1] # alphabet[1])

\* the two-limb number a numeral denotes, read digit by digit
RECURSIVE ReadBack(_, _)
ReadBack(chars, alphabet) ==
    IF chars = << >> THEN <<0, 0>>
    ELSE LET d == ReadBack(SubSeq(chars, 1, Len(chars) - 1), alphabet)
             lo == d[2] * Len(alphabet) + DigitOf(Last(chars), alphabet)
         IN  <<(d[1] * Len(alphabet)) + (lo \div Limb), lo % Limb>>

\* UTF-8 bytes of a sequence of code points
EncodeChar(c) ==
    IF c < 128 THEN <<c>>
    ELSE IF c < 2048 THEN <<192 + (c \div 64), 128 + (c % 64)>>
    ELSE IF c < 65536 THEN <<224 + (c \div 4096), 128 + ((c \div 64) % 64), 128 + (c % 64)>>
    ELSE <<240 + (c \div 262144), 128 + ((c \div 4096) % 64),
          128 + ((c \div 64) % 64), 128 + (c % 64)>>

RECURSIVE Encode(_)
Encode(cs) == IF cs = << >> THEN << >> ELSE EncodeChar(cs[1]) \o Encode(Tail(cs))

-----------------------------------------------------------------------------
(* Properties *)

\* C1: when the load fails, whatever the cause, nothing but the error line is ever
\* printed: the output is empty until the handler runs and afterwards it is exactly
\* one line, the marker "[ERR] Could not parse PE file: " followed by str(e).
C1_LoadFailureSingleErrorLine ==
    LoadFailed =>
        /\ Len(out) <= 1
        /\ \A k \in 1..Len(out) :
              /\ out[k].lit = <<"[ERR] Could not parse PE file: ">>
              /\ out[k].label = exc[1].msg
              /\ out[k].name = << >> /\ out[k].va = << >> /\ out[k].num = << >>
        /\ (pc \in {"end", "done"} => Len(out) = 1)

C1_Witness ==
    /\ Done /\ LoadFailed
    /\ exc[1].cls = "FileNotFoundError"
    /\ Len(out) = 1 /\ out[1].lit = ErrLit

\* a complete report: from the file line to the .NET line, without an error line
IsCompleteReport ==
    /\ Len(out) >= 6
    /\ out[1].lit = FileLit
    /\ Last(out).lit \in {FoundLit, MissingLit}
    /\ Lines(ErrLit) = << >>

IsSingleErrorLine == Len(out) = 1 /\ out[1].lit = ErrLit

\* C2: at the end of every run the output is either the complete report or a
\* single error line, never report lines together with an error line.
C2_ReportOrSingleErrorLine == Done => (IsCompleteReport \/ IsSingleErrorLine)

\* C3: whenever the count line is printed, the number it shows is the number of
\* section lines printed and the length of the parsed section sequence; an image
\* without sections gets "Number of sections: 0" and no section line.
C3_CountMatchesSectionLines ==
    /\ Len(Lines(CountLit)) <= 1
    /\ \A k \in 1..Len(out) :
          out[k].lit = CountLit =>
              /\ IsNumeral(out[k].num, Decimal)
              /\ ReadBack(out[k].num, Decimal) = <<0, Len(Lines(SectionLit))>>
              /\ Len(Lines(SectionLit)) = Len(pe[1].sections)
              /\ (pe[1].sections = << >> => out[k].num = <<"0">>)
    /\ (Succeeded => Len(Lines(CountLit)) = 1)

C3_Witness ==
    /\ Succeeded
    /\ Len(Lines(SectionLit)) = 2
    /\ Lines(CountLit) # << >> /\ Lines(CountLit)[1].num = <<"2">>

\* C4: the lines of the output are in the order of their groups (file, entry point,
\* sections, count, data directories, .NET line) with no line of a later group before
\* one of an earlier group; a successful run emits every single-line group exactly
\* once, the section lines in file order and the .NET line last.
C4_GroupsInOrder ==
    /\ \A j, k \in 1..Len(out) : j < k => Rank(out[j]) <= Rank(out[k])
    /\ \A lit \in {FileLit, EntryLit, SecHdrLit, CountLit, DirHdrLit} :
          /\ Len(Lines(lit)) <= 1
          /\ (Succeeded => Len(Lines(lit)) = 1)
    /\ Succeeded =>
          /\ out[1].lit = FileLit /\ out[2].lit = EntryLit
          /\ Rank(Last(out)) = 8
          /\ Len(Lines(FoundLit)) + Len(Lines(MissingLit)) = 1
          /\ Len(Lines(SectionLit)) = Len(pe[1].sections)
          /\ Len(Lines(DirLit)) = Len(pe[1].DATA_DIRECTORY)
          /\ \A k \in 1..Len(pe[1].sections) :
                /\ ReadBack(Lines(SectionLit)[k].va, UpperHex) = pe[1].sections[k].VirtualAddress
                /\ ReadBack(Lines(SectionLit)[k].num, Decimal) = pe[1].sections[k].SizeOfRawData

C4_Witness ==
    /\ Succeeded
    /\ Len(pe[1].sections) = 2 /\ pe[1].sections[1] # pe[1].sections[2]
    /\ Len(pe[1].DATA_DIRECTORY) = NumDirs
    /\ Len(out) = 8 + NumDirs

\* C5 as stated: a successful report has exactly one data-directory line for every
\* index of the enumeration of directory kinds.
C5_OneLinePerKnownIndex ==
    Succeeded =>
        \A idx \in DOMAIN DIRECTORY_ENTRY :
            Cardinality({k \in 1..Len(out) :
                out[k].lit = DirLit /\ out[k].label = DIRECTORY_ENTRY[idx]}) = 1

\* C5 (amended): a successful report has exactly one data-directory line for every
\* index of the parsed data-directory sequence, which is never longer than the
\* enumeration and may be shorter; the lines are in index order, each labelled with
\* its index's well-known name and showing the entry's address and size, zero or not;
\* an index past the parsed sequence gets no line.
C5_OneLinePerParsedEntry ==
    Succeeded =>
        LET dl == Lines(DirLit)
            dd == pe[1].DATA_DIRECTORY
        IN  /\ Len(dl) = Len(dd)
            /\ Len(dd) <= NumDirs
            /\ \A k \in 1..Len(dl) :
                  /\ dl[k].label = DirNames[k]
                  /\ IsNumeral(dl[k].va, UpperHex) /\ IsNumeral(dl[k].num, Decimal)
                  /\ ReadBack(dl[k].va, UpperHex) = dd[k].VirtualAddress
                  /\ ReadBack(dl[k].num, Decimal) = dd[k].Size
            /\ \A idx \in DOMAIN DIRECTORY_ENTRY :
                  Cardinality({k \in 1..Len(dl) : dl[k].label = DIRECTORY_ENTRY[idx]})
                      = IF idx < Len(dd) THEN 1 ELSE 0

C5_Witness ==
    /\ Succeeded
    /\ Len(pe[1].DATA_DIRECTORY) = 10
    /\ Len(Lines(DirLit)) = 10
    /\ Lines(DirLit)[1].va = <<"0">> /\ Lines(DirLit)[1].num = <<"0">>
    /\ Lines(DirLit)[2].va = <<"3", "0", "0", "0">>

C7_TerminatesNormally ==
    /\ <>Done
    /\ [](Done => /\ status = "exit0"
                  /\ loads = 1
                  /\ (exc # << >> => Last(out).lit = ErrLit))
    /\ [](loads <= 1)

C7_Witness ==
    /\ Done /\ ReportFailed
    /\ status = "exit0" /\ loads = 1

\* the section lines of the output, against the headers they were printed from
NameLines == Lines(SectionLit)

\* C8: the name shown on a section line is the field's bytes without their trailing
\* run of NULs and with nothing else changed: its UTF-8 bytes followed by NULs up to the
\* field's width are the field, it does not end in NUL (so NULs before a non-NUL
\* character stay), and stripping it again changes nothing.
C8_NameIsFieldWithoutTrailingNuls ==
    /\ Len(NameLines) <= (IF pe = << >> THEN 0 ELSE Len(pe[1].sections))
    /\ \A k \in 1..Len(NameLines) :
          LET shown == NameLines[k].name
              field == pe[1].sections[k].Name
          IN  /\ Len(Encode(shown)) <= Len(field)
              /\ Pad(Encode(shown), Len(field)) = field
              /\ (shown # << >> => Last(shown) # 0)
              /\ RStrip(shown, NUL) = shown

C8_Witness ==
    /\ Len(NameLines) = 1
    /\ NameLines[1].name = <<65, 0, 233>>
    /\ pe[1].sections[1].Name = <<65, 0, 195, 169, 0, 0, 0, 0>>

\* C9: the entry-point line is "  Entry point: 0x" followed by the uppercase
\* hexadecimal numeral of AddressOfEntryPoint, without padding; read back in base 16
\* the digits give the field's value.
C9_EntryPointUpperHex ==
    /\ Len(Lines(EntryLit)) <= 1
    /\ \A k \in 1..Len(out) :
          out[k].lit = <<"  Entry point: 0x">> =>
              /\ IsNumeral(out[k].va, UpperHex)
              /\ ReadBack(out[k].va, UpperHex) = pe[1].AddressOfEntryPoint
              /\ out[k].name = << >> /\ out[k].label = "" /\ out[k].num = << >>
    /\ (Succeeded => Len(Lines(EntryLit)) = 1)

C9_Witness ==
    /\ Succeeded
    /\ pe[1].AddressOfEntryPoint = <<43981, 4095>>
    /\ out[2].va = <<"A", "B", "C", "D", "0", "F", "F", "F">>

\* the lines a report begins with when the first n section names have decoded
ReportStart(p, n) ==
    <<FileLine, EntryLine(p), SectionsHeader>>
        \o [k \in 1..n |-> SectionLine(p.sections[k])]

\* C10: at most one error line is printed, and it is the last line; when the report
\* raises, the lines printed before stay: the output is the beginning of the report up
\* to the failure, then the error line, with no count line, data-directory line or
\* .NET line after the failure point.
C10_ErrorLineLastAfterPartialReport ==
    /\ Len(Lines(ErrLit)) <= 1
    /\ \A k \in 1..Len(out) : out[k].lit = ErrLit => k = Len(out)
    /\ (exc # << >> /\ pc \in {"end", "done"}) =>
          /\ Len(Lines(ErrLit)) = 1
          /\ Last(out).label = exc[1].msg
    /\ (exc = << >>) => Lines(ErrLit) = << >>
    /\ ReportFailed =>
          /\ Len(Body) >= 3
          /\ \A k \in 1..Len(Body) : Rank(Body[k]) <= 7
          /\ exc[1].cls = "UnicodeDecodeError" =>
                /\ Len(Body) < 3 + Len(pe[1].sections)
                /\ Body = ReportStart(pe[1], Len(Body) - 3)
                /\ ~CanDecode(pe[1].sections[Len(Body) - 2].Name)

C10_Witness ==
    /\ Done /\ ReportFailed
    /\ Len(out) = 5
    /\ out[4].lit = SectionLit
    /\ out[5].lit = ErrLit

=============================================================================
